---- MODULE Spec2Model ----
(***************************************************************************)
(* Model of the process engine (src/process_engine): the in-memory         *)
(* repositories, WorkflowEngine, FlowExecutor and TaskService.             *)
(* uuid4 identifiers are modelled as the position of the record in the     *)
(* repository (a fresh id on every creation); datetime.now() values as     *)
(* "set" against None.                                                     *)
(***************************************************************************)
EXTENDS Integers, Sequences, FiniteSets, TLC

\* definitions: DefinitionRepository.definitions, id -> ProcessDefinition
\* instances:   InstanceRepository.instances, id -> ProcessInstance
\* tasks:       InstanceRepository.tasks, id -> Task
\* calls:       per calling thread, where its complete_task call stands
VARIABLES definitions, instances, tasks, calls

vars == <<definitions, instances, tasks, calls>>

\* ---------------------------------------------------------------- bounds
MaxDefs == 1

MaxInstances == 1

MaxTasks == 2

\* ------------------------------------------------------------- constants
\* Python's None, and an id that no repository holds.
None == "None"

UnknownId == 0

\* _execute_end_node declares one parameter besides self ...
EndNodeParams == 1

\* ... and _execute_node passes it three arguments.
EndNodeArgs == 3

\* ------------------------------------------------------ values and dicts
\* A dynamically typed variable value: its Python type and its str().
IntVal(r) == [kind |-> "int", repr |-> r]

StrVal(r) == [kind |-> "str", repr |-> r]

\* str(value)
str(v) == v.repr

\* str(i) for a list index i
IntRepr == <<"0", "1", "2", "3">>

strInt(i) == IntRepr[i + 1]

EmptyDict == [k \in {} |-> None]

Dict1(k, v) == [x \in {k} |-> v]

\* dict.update
DictUpdate(d, u) ==
    [k \in (DOMAIN d) \cup (DOMAIN u) |-> IF k \in DOMAIN u THEN u[k] ELSE d[k]]

\* dict.get(key, default)
DictGet(d, k, default) == IF k \in DOMAIN d THEN d[k] ELSE default

\* An optional dict argument (Dict[str, Any] = None).
NoneArg == [isNone |-> TRUE, d |-> EmptyDict]

DictArg(d) == [isNone |-> FALSE, d |-> d]

\* Python truthiness of an optional dict: None and {} are falsy.
Truthy(arg) == ~arg.isNone /\ DOMAIN arg.d # {}

\* `variables or {}`
OrEmpty(arg) == IF Truthy(arg) THEN arg.d ELSE EmptyDict

\* ------------------------------------------------------ process model
Node(id, type, properties, outgoing, incoming) ==
    [id |-> id, name |-> id, type |-> type, properties |-> properties,
     outgoing |-> outgoing, incoming |-> incoming]

ProcessDefinition(id, nodes, start_node_id) ==
    [id |-> id, version |-> 1, nodes |-> nodes, start_node_id |-> start_node_id,
     is_active |-> TRUE]

\* ProcessDefinition.get_node: the node, or None when the id is not in the map.
HasNode(def, node_id) == node_id \in DOMAIN def.nodes

get_node(def, node_id) == def.nodes[node_id]

\* A condition string as its tokens: "{{approval}}" is <<"{{", "approval", "}}">>.
VarRef(name) == <<"{{", name, "}}">>

\* ------------------------------------------------- deployed definitions
\* START -> TASK(service_task) -> END
LinService ==
    ProcessDefinition("lin_service",
        [n \in {"s", "t", "e"} |->
            CASE n = "s" -> Node("s", "start", EmptyDict, <<"t">>, <<>>)
              [] n = "t" -> Node("t", "task", Dict1("task_type", "service_task"),
                                 <<"e">>, <<"s">>)
              [] n = "e" -> Node("e", "end", EmptyDict, <<>>, <<"t">>)],
        "s")

\* START -> DECISION({{approval}}) -> [task_2 (service_task), task_3 (user_task)] -> END
Decision2 ==
    ProcessDefinition("decision2",
        [n \in {"start_1", "decision_1", "task_2", "task_3", "end_1"} |->
            CASE n = "start_1" ->
                    Node(n, "start", EmptyDict, <<"decision_1">>, <<>>)
              [] n = "decision_1" ->
                    Node(n, "decision", Dict1("condition", VarRef("approval")),
                         <<"task_2", "task_3">>, <<"start_1">>)
              [] n = "task_2" ->
                    Node(n, "task", Dict1("task_type", "service_task"),
                         <<"end_1">>, <<"decision_1">>)
              [] n = "task_3" ->
                    Node(n, "task", Dict1("task_type", "user_task"),
                         <<"end_1">>, <<"decision_1">>)
              [] n = "end_1" ->
                    Node(n, "end", EmptyDict, <<>>, <<"task_2", "task_3">>)],
        "start_1")

\* START -> DECISION({{approval}}) -> [a, b, c] (user tasks) -> END
Decision3 ==
    ProcessDefinition("decision3",
        [n \in {"s", "d", "a", "b", "c", "e"} |->
            CASE n = "s" -> Node(n, "start", EmptyDict, <<"d">>, <<>>)
              [] n = "d" -> Node(n, "decision", Dict1("condition", VarRef("approval")),
                                 <<"a", "b", "c">>, <<"s">>)
              [] n \in {"a", "b", "c"} ->
                            Node(n, "task", Dict1("task_type", "user_task"),
                                 <<"e">>, <<"d">>)
              [] n = "e" -> Node(n, "end", EmptyDict, <<>>, <<"a", "b", "c">>)],
        "s")

\* The sample approval process of app.py:
\* start_1 -> task_1 (user) -> decision_1 -> [task_2 (service), task_3 (user)] -> end_1
Sample ==
    ProcessDefinition("sample",
        [n \in {"start_1", "task_1", "decision_1", "task_2", "task_3", "end_1"} |->
            CASE n = "start_1" ->
                    Node(n, "start", EmptyDict, <<"task_1">>, <<>>)
              [] n = "task_1" ->
                    Node(n, "task",
                         [k \in {"task_type", "assignee"} |->
                            IF k = "task_type" THEN "user_task" ELSE "admin"],
                         <<"decision_1">>, <<"start_1">>)
              [] n = "decision_1" ->
                    Node(n, "decision", Dict1("condition", VarRef("approval_result")),
                         <<"task_2", "task_3">>, <<"task_1">>)
              [] n = "task_2" ->
                    Node(n, "task", Dict1("task_type", "service_task"),
                         <<"end_1">>, <<"decision_1">>)
              [] n = "task_3" ->
                    Node(n, "task",
                         [k \in {"task_type", "assignee"} |->
                            IF k = "task_type" THEN "user_task" ELSE "user"],
                         <<"end_1">>, <<"decision_1">>)
              [] n = "end_1" ->
                    Node(n, "end", EmptyDict, <<>>, <<"task_2", "task_3">>)],
        "start_1")

\* The definitions a caller deploys.
Catalogue == {LinService, Decision2, Decision3, Sample}

\* The linear chain constructed with is_active = False.
Inactive == [LinService EXCEPT !.id = "inactive", !.is_active = FALSE]

\* START -> TASK(service_task) -> TASK(script_task) -> END
AutoChain ==
    ProcessDefinition("auto_chain",
        [n \in {"s", "svc", "scr", "e"} |->
            CASE n = "s"   -> Node(n, "start", EmptyDict, <<"svc">>, <<>>)
              [] n = "svc" -> Node(n, "task", Dict1("task_type", "service_task"),
                                   <<"scr">>, <<"s">>)
              [] n = "scr" -> Node(n, "task", Dict1("task_type", "script_task"),
                                   <<"e">>, <<"svc">>)
              [] n = "e"   -> Node(n, "end", EmptyDict, <<>>, <<"scr">>)],
        "s")

\* START -> "ghost", an id that is not in the node map.
Dangling ==
    ProcessDefinition("dangling",
        [n \in {"s"} |-> Node(n, "start", EmptyDict, <<"ghost">>, <<>>)],
        "s")

\* START -> PARALLEL -> [a, b] (user tasks) -> JOIN(expects [a, b]) -> after (user) -> END
ForkJoin ==
    ProcessDefinition("fork_join",
        [n \in {"s", "p", "a", "b", "j", "after", "e"} |->
            CASE n = "s" -> Node(n, "start", EmptyDict, <<"p">>, <<>>)
              [] n = "p" -> Node(n, "parallel", EmptyDict, <<"a", "b">>, <<"s">>)
              [] n \in {"a", "b"} ->
                            Node(n, "task", Dict1("task_type", "user_task"),
                                 <<"j">>, <<"p">>)
              [] n = "j" -> Node(n, "join", Dict1("expects", <<"a", "b">>),
                                 <<"after">>, <<"a", "b">>)
              [] n = "after" ->
                            Node(n, "task", Dict1("task_type", "user_task"),
                                 <<"e">>, <<"j">>)
              [] n = "e" -> Node(n, "end", EmptyDict, <<>>, <<"after">>)],
        "s")

\* Further definitions a caller can deploy: an inactive one, one with a script
\* task, one with an edge to a missing node and one with a PARALLEL and a JOIN.
Variants == {Inactive, AutoChain, Dangling, ForkJoin}

\* A second definition with Decision2's id: version 2, the decision's outgoing
\* edges in the other order.
Decision2Revised ==
    [Decision2 EXCEPT !.version = 2,
                      !.nodes["decision_1"].outgoing = <<"task_3", "task_2">>]

\* START -> DECISION(condition "0", a literal) -> [a, b] (user tasks) -> END
LiteralDecision ==
    ProcessDefinition("literal_decision",
        [n \in {"s", "d", "a", "b", "e"} |->
            CASE n = "s" -> Node(n, "start", EmptyDict, <<"d">>, <<>>)
              [] n = "d" -> Node(n, "decision", Dict1("condition", <<"0">>),
                                 <<"a", "b">>, <<"s">>)
              [] n \in {"a", "b"} ->
                            Node(n, "task", Dict1("task_type", "user_task"),
                                 <<"e">>, <<"d">>)
              [] n = "e" -> Node(n, "end", EmptyDict, <<>>, <<"a", "b">>)],
        "s")

\* START -> DECISION with no outgoing edge
EmptyDecision ==
    ProcessDefinition("empty_decision",
        [n \in {"s", "d"} |->
            CASE n = "s" -> Node(n, "start", EmptyDict, <<"d">>, <<>>)
              [] n = "d" -> Node(n, "decision", Dict1("condition", VarRef("approval")),
                                 <<>>, <<"s">>)],
        "s")

\* Definitions deployed to exercise redeployment and the decision node.
Revisions == {Decision2, Decision2Revised, LiteralDecision, EmptyDecision}

\* ------------------------------------------------------------------ Task
\* Task(...): a new task, status CREATED, no variables, no timestamps but created_at.
Task(id, process_instance_id, node_id, name, task_type, assignee, due_date) ==
    [id |-> id, process_instance_id |-> process_instance_id, node_id |-> node_id,
     name |-> name, task_type |-> task_type, assignee |-> assignee,
     status |-> "created", variables |-> EmptyDict,
     assigned_at |-> None, completed_at |-> None, due_date |-> due_date]

\* Task.assign
assign(task, assignee) ==
    [task EXCEPT !.assignee = assignee, !.status = "assigned", !.assigned_at = "set"]

\* Task.start_work
start_work(task) ==
    IF task.status = "assigned" THEN [task EXCEPT !.status = "in_progress"] ELSE task

\* Task.complete
complete(task) ==
    [task EXCEPT !.status = "completed", !.completed_at = "set"]

\* Task.fail
fail(task) == [task EXCEPT !.status = "failed"]

\* ------------------------------------------------------- ProcessInstance
\* ProcessInstance(...) with the current_node_ids argument dropped: the field's
\* default, an empty list.
ProcessInstance_default_nodes(id, process_definition_id, variables, current_node_ids) ==
    [id |-> id, process_definition_id |-> process_definition_id,
     status |-> "running", variables |-> variables,
     current_node_ids |-> <<>>, completed_at |-> None]

\* The instance start_process constructs: status "running", no completion time.
ProcessInstance(id, process_definition_id, variables, current_node_ids) ==
    [id |-> id, process_definition_id |-> process_definition_id,
     status |-> "running", variables |-> variables,
     current_node_ids |-> current_node_ids, completed_at |-> None]

\* ---------------------------------------------------------- repositories
\* DefinitionRepository.save: definitions[definition.id] = definition
save_definition(defs, definition) ==
    [id \in (DOMAIN defs) \cup {definition.id} |->
        IF id = definition.id THEN definition ELSE defs[id]]

\* DefinitionRepository.find_by_id / InstanceRepository.find_by_id,
\* find_task_by_id: whether dict.get returns an object.
Found(repo, id) == id \in DOMAIN repo

\* InstanceRepository.find_tasks_by_instance_id, as the ids of the tasks.
find_tasks_by_instance_id(ts, instance_id) ==
    {t \in DOMAIN ts : ts[t].process_instance_id = instance_id}

\* InstanceRepository.update / update_task: the repository holds the very object
\* the caller mutated, so storing it again under its id changes nothing.
update(repo, obj) == [repo EXCEPT ![obj.id] = obj]

\* ------------------------------------------------------------ FlowExecutor
\* The executor's working state: both repositories' contents and the exception
\* raised so far ("none" while it runs normally).
ExecState(insts, ts) == [instances |-> insts, tasks |-> ts, exc |-> "none"]

Raise(st, exc) == [st EXCEPT !.exc = exc]

\* The token move adding the successor to the list instead of replacing it.
MoveTo_appends(st, i, next_node_id) ==
    [st EXCEPT !.instances =
        update(st.instances,
               [st.instances[i] EXCEPT !.current_node_ids = Append(@, next_node_id)])]

\* The token move written to every stored instance.
MoveTo_every_instance(st, i, next_node_id) ==
    [st EXCEPT !.instances =
        [j \in DOMAIN st.instances |->
            [st.instances[j] EXCEPT !.current_node_ids = <<next_node_id>>]]]

\* process_instance.current_node_ids = [next_node_id]; repository.update(process_instance)
MoveTo(st, i, next_node_id) ==
    [st EXCEPT !.instances =
        update(st.instances, [st.instances[i] EXCEPT !.current_node_ids = <<next_node_id>>])]

\* The condition's variable name: condition.replace("{{", "").replace("}}", ""),
\* as the tokens that are left.
StripBraces(condition) == SelectSeq(condition, LAMBDA tok : tok \notin {"{{", "}}"})

\* '"{{" in condition and "}}" in condition'
IsVarRef(condition) ==
    /\ \E k \in DOMAIN condition : condition[k] = "{{"
    /\ \E k \in DOMAIN condition : condition[k] = "}}"

\* 'var_name in process_instance.variables': the stripped string is a key.
Bound(var_name, variables) == Len(var_name) = 1 /\ var_name[1] \in DOMAIN variables

\* The for loop of _execute_decision_node from index i on (0-based): the first
\* non-last outgoing edge whose index, as a string, equals str(var_value); the
\* default path when the loop ends without a break.
RECURSIVE MatchLoop(_, _, _, _)
MatchLoop(outgoing, var_value, i, default_path) ==
    IF i >= Len(outgoing) THEN default_path
    ELSE IF i < Len(outgoing) - 1 /\ str(var_value) = strInt(i) THEN outgoing[i + 1]
    ELSE MatchLoop(outgoing, var_value, i + 1, default_path)

\* _execute_decision_node taking the first outgoing edge as the default path.
DecisionTarget_first_default(node, variables) ==
    LET condition    == node.properties["condition"]
        default_path == node.outgoing[1]
    IN  IF /\ "condition" \in DOMAIN node.properties
           /\ Len(condition) > 0
           /\ IsVarRef(condition)
           /\ Bound(StripBraces(condition), variables)
        THEN MatchLoop(node.outgoing, variables[StripBraces(condition)[1]], 0, default_path)
        ELSE default_path

\* _execute_decision_node comparing a condition without {{...}} itself, as a
\* str, with the indexes.
DecisionTarget_literal_match(node, variables) ==
    LET condition    == node.properties["condition"]
        default_path == node.outgoing[Len(node.outgoing)]
    IN  IF "condition" \in DOMAIN node.properties /\ Len(condition) > 0
        THEN IF IsVarRef(condition)
             THEN IF Bound(StripBraces(condition), variables)
                  THEN MatchLoop(node.outgoing, variables[StripBraces(condition)[1]],
                                 0, default_path)
                  ELSE default_path
             ELSE MatchLoop(node.outgoing, StrVal(condition[1]), 0, default_path)
        ELSE default_path

\* next_node_id of _execute_decision_node, for a node with outgoing edges.
DecisionTarget(node, variables) ==
    LET condition    == node.properties["condition"]
        default_path == node.outgoing[Len(node.outgoing)]
    IN  IF /\ "condition" \in DOMAIN node.properties
           /\ Len(condition) > 0
           /\ IsVarRef(condition)
           /\ Bound(StripBraces(condition), variables)
        THEN MatchLoop(node.outgoing, variables[StripBraces(condition)[1]], 0, default_path)
        ELSE default_path

\* The body of _execute_end_node. datetime.now() is a time later than any the
\* instance already holds: "later" when a completion time is overwritten.
_execute_end_node(st, i) ==
    [st EXCEPT !.instances =
        update(st.instances,
               [st.instances[i] EXCEPT
                   !.status = "completed",
                   !.completed_at = IF @ = None THEN "set" ELSE "later"])]

RECURSIVE _execute_node(_, _, _, _)

_execute_start_node(st, i, def, node) ==
    IF node.outgoing # <<>>
    THEN LET next_node_id == node.outgoing[1]
             st1 == MoveTo(st, i, next_node_id)
         IN  IF HasNode(def, next_node_id)
             THEN _execute_node(st1, i, def, get_node(def, next_node_id))
             ELSE st1
    ELSE st

\* _execute_task_node with the test for an automatic task left out: every task
\* is started, completed and passed.
_execute_task_node_all_automatic(st, i, def, node) ==
    LET task == Task(Len(st.tasks) + 1, st.instances[i].id, node.id, node.name,
                     DictGet(node.properties, "task_type", "user_task"),
                     DictGet(node.properties, "assignee", None),
                     DictGet(node.properties, "due_date", None))
        saved == [st EXCEPT !.tasks = Append(st.tasks, task)]
        done  == [saved EXCEPT !.tasks = update(saved.tasks, complete(start_work(task)))]
    IN  IF node.outgoing # <<>>
        THEN LET next_node_id == node.outgoing[1]
                 st1 == MoveTo(done, i, next_node_id)
             IN  IF HasNode(def, next_node_id)
                 THEN _execute_node(st1, i, def, get_node(def, next_node_id))
                 ELSE st1
        ELSE done

_execute_task_node(st, i, def, node) ==
    LET task == Task(Len(st.tasks) + 1, st.instances[i].id, node.id, node.name,
                     DictGet(node.properties, "task_type", "user_task"),
                     DictGet(node.properties, "assignee", None),
                     DictGet(node.properties, "due_date", None))
        saved == [st EXCEPT !.tasks = Append(st.tasks, task)]
    IN  IF task.task_type = "service_task"
        THEN LET done == [saved EXCEPT !.tasks =
                            update(saved.tasks, complete(start_work(task)))]
             IN  IF node.outgoing # <<>>
                 THEN LET next_node_id == node.outgoing[1]
                          st1 == MoveTo(done, i, next_node_id)
                      IN  IF HasNode(def, next_node_id)
                          THEN _execute_node(st1, i, def, get_node(def, next_node_id))
                          ELSE st1
                 ELSE done
        ELSE saved

_execute_decision_node(st, i, def, node) ==
    IF node.outgoing # <<>>
    THEN LET next_node_id == DecisionTarget(node, st.instances[i].variables)
             st1 == MoveTo(st, i, next_node_id)
         IN  IF HasNode(def, next_node_id)
             THEN _execute_node(st1, i, def, get_node(def, next_node_id))
             ELSE st1
    ELSE st

\* The dispatch on node.type with the END node's body entered.
_execute_node_end_entered(st, i, def, node) ==
    CASE node.type = "start"    -> _execute_start_node(st, i, def, node)
      [] node.type = "task"     -> _execute_task_node(st, i, def, node)
      [] node.type = "end"      -> _execute_end_node(st, i)
      [] node.type = "decision" -> _execute_decision_node(st, i, def, node)
      [] OTHER                  -> st

\* The dispatch on node.type; a call of _execute_end_node with EndNodeArgs
\* arguments for EndNodeParams parameters raises TypeError before its body runs.
_execute_node(st, i, def, node) ==
    CASE node.type = "start"    -> _execute_start_node(st, i, def, node)
      [] node.type = "task"     -> _execute_task_node(st, i, def, node)
      [] node.type = "end"      -> IF EndNodeArgs = EndNodeParams
                                   THEN _execute_end_node(st, i)
                                   ELSE Raise(st, "TypeError")
      [] node.type = "decision" -> _execute_decision_node(st, i, def, node)
      [] OTHER                  -> st

\* 'for node in current_nodes' from position k on; an exception ends the loop.
RECURSIVE ExecuteLoop(_, _, _, _, _)
ExecuteLoop(st, i, def, current_nodes, k) ==
    IF k > Len(current_nodes) \/ st.exc # "none" THEN st
    ELSE ExecuteLoop(_execute_node(st, i, def, current_nodes[k]), i, def,
                     current_nodes, k + 1)

\* FlowExecutor.execute on the instance with id i.
execute(defs, st, i) ==
    LET process_definition_id == st.instances[i].process_definition_id
    IN  IF ~Found(defs, process_definition_id) THEN Raise(st, "ValueError")
        ELSE LET def   == defs[process_definition_id]
                 ids   == SelectSeq(st.instances[i].current_node_ids,
                                    LAMBDA node_id : HasNode(def, node_id))
                 nodes == [k \in DOMAIN ids |-> get_node(def, ids[k])]
             IN  ExecuteLoop(st, i, def, nodes, 1)

\* ---------------------------------------------------------------- engine
\* start_process with the is_active test left out.
start_process_ignores_active(defs, insts, ts, process_definition_id, variables) ==
    IF ~Found(defs, process_definition_id)
    THEN Raise(ExecState(insts, ts), "ValueError")
    ELSE LET id == Len(insts) + 1
             process_instance ==
                 ProcessInstance(id, process_definition_id, OrEmpty(variables),
                                 <<defs[process_definition_id].start_node_id>>)
         IN  execute(defs, ExecState(Append(insts, process_instance), ts), id)

\* WorkflowEngine.start_process: the repositories it leaves and the exception it
\* raises ("none" when it returns the new instance's id).
start_process(defs, insts, ts, process_definition_id, variables) ==
    IF \/ ~Found(defs, process_definition_id)
       \/ ~defs[process_definition_id].is_active
    THEN Raise(ExecState(insts, ts), "ValueError")
    ELSE LET id == Len(insts) + 1
             process_instance ==
                 ProcessInstance(id, process_definition_id, OrEmpty(variables),
                                 <<defs[process_definition_id].start_node_id>>)
         IN  execute(defs, ExecState(Append(insts, process_instance), ts), id)

\* complete_task's test with the status left out.
CompleteRejected_found_only(ts, task_id) == ~Found(ts, task_id)

\* complete_task's test accepting ASSIGNED as well.
CompleteRejected_assigned_too(ts, task_id) ==
    \/ ~Found(ts, task_id)
    \/ ts[task_id].status \notin {"assigned", "in_progress"}

\* 'if not task or task.status != TaskStatus.IN_PROGRESS' of complete_task
CompleteRejected(ts, task_id) ==
    \/ ~Found(ts, task_id)
    \/ ts[task_id].status # "in_progress"

\* WorkflowEngine.complete_task: the repositories it leaves and the exception it
\* raises ("none" when it returns).
complete_task(defs, insts, ts, task_id, variables) ==
    IF CompleteRejected(ts, task_id)
    THEN Raise(ExecState(insts, ts), "ValueError")
    ELSE LET completed == complete(ts[task_id])
             task == IF Truthy(variables)
                     THEN [completed EXCEPT
                              !.variables = DictUpdate(completed.variables, variables.d)]
                     ELSE completed
         IN  execute(defs, ExecState(insts, update(ts, task)), task.process_instance_id)

\* ---------------------------------------------------------- task service
\* TaskService.assign_task: the task repository it leaves.
assign_task(ts, task_id, assignee) ==
    IF Found(ts, task_id) THEN update(ts, assign(ts[task_id], assignee)) ELSE ts

\* start_task moving a stored task to IN_PROGRESS whatever its status.
start_task_any_status(ts, task_id) ==
    IF Found(ts, task_id)
    THEN update(ts, [ts[task_id] EXCEPT !.status = "in_progress"])
    ELSE ts

\* TaskService.start_task: the task repository it leaves.
start_task(ts, task_id) ==
    IF Found(ts, task_id) /\ ts[task_id].status = "assigned"
    THEN update(ts, start_work(ts[task_id]))
    ELSE ts

\* ------------------------------------------------------------ operations
\* The arguments callers pass.
DefIdArgs == {d.id : d \in Catalogue} \cup {"missing"}

StartVariables ==
    {NoneArg, DictArg(Dict1("approval", StrVal("0"))),
     DictArg(Dict1("approval", IntVal("1")))}

CompleteVariables == {NoneArg, DictArg(Dict1("approval", StrVal("0")))}

Assignees == {"admin"}

TaskIdArgs == {UnknownId} \cup DOMAIN tasks

\* The threads that call complete_task, and a thread that is not inside a call.
Callers == {"c1", "c2"}

Idle == [pc |-> "idle", task_id |-> UnknownId, variables |-> NoneArg]

\* The repositories of a new WorkflowEngine; no call is under way.
Init ==
    /\ definitions = EmptyDict
    /\ instances = <<>>
    /\ tasks = <<>>
    /\ calls = [c \in Callers |-> Idle]

\* WorkflowEngine.deploy_process
DeployProcess(process_definition) ==
    /\ Cardinality((DOMAIN definitions) \cup {process_definition.id}) <= MaxDefs
    /\ definitions' = save_definition(definitions, process_definition)
    /\ UNCHANGED <<instances, tasks, calls>>

\* start_process switching the definition it starts to inactive.
StartProcess_deactivates(process_definition_id, variables) ==
    /\ Found(definitions, process_definition_id)
    /\ Len(instances) < MaxInstances
    /\ LET st == start_process(definitions, instances, tasks, process_definition_id,
                               variables)
       IN  /\ Len(st.tasks) <= MaxTasks
           /\ instances' = st.instances
           /\ tasks' = st.tasks
    /\ definitions' = [definitions EXCEPT ![process_definition_id].is_active = FALSE]
    /\ UNCHANGED calls

\* WorkflowEngine.start_process (ProcessService.start_process_instance)
StartProcess(process_definition_id, variables) ==
    /\ Found(definitions, process_definition_id) => Len(instances) < MaxInstances
    /\ LET st == start_process(definitions, instances, tasks, process_definition_id,
                               variables)
       IN  /\ Len(st.tasks) <= MaxTasks
           /\ instances' = st.instances
           /\ tasks' = st.tasks
    /\ UNCHANGED <<definitions, calls>>

\* TaskService.assign_task
AssignTask(task_id, assignee) ==
    /\ tasks' = assign_task(tasks, task_id, assignee)
    /\ UNCHANGED <<definitions, instances, calls>>

\* TaskService.start_task
StartTask(task_id) ==
    /\ tasks' = start_task(tasks, task_id)
    /\ UNCHANGED <<definitions, instances, calls>>

\* WorkflowEngine.complete_task (TaskService.complete_task)
CompleteTask(task_id, variables) ==
    LET st == complete_task(definitions, instances, tasks, task_id, variables)
    IN  /\ Len(st.tasks) <= MaxTasks
        /\ instances' = st.instances
        /\ tasks' = st.tasks
        /\ UNCHANGED <<definitions, calls>>

\* FlowExecutor.execute called again on a stored instance.
Execute(i) ==
    LET st == execute(definitions, ExecState(instances, tasks), i)
    IN  /\ Len(st.tasks) <= MaxTasks
        /\ instances' = st.instances
        /\ tasks' = st.tasks
        /\ UNCHANGED <<definitions, calls>>

\* Each operation, called with any of its arguments.
Deploy == \E d \in Catalogue : DeployProcess(d)

Start == \E id \in DefIdArgs, v \in StartVariables : StartProcess(id, v)

Assign == \E t \in TaskIdArgs, a \in Assignees : AssignTask(t, a)

StartWork == \E t \in TaskIdArgs : StartTask(t)

Complete == \E t \in TaskIdArgs, v \in CompleteVariables : CompleteTask(t, v)

ReExecute == \E i \in DOMAIN instances : Execute(i)

\* The operations of the engine and of the task service.
NextApi == Deploy \/ Start \/ Assign \/ StartWork \/ Complete

Next == NextApi \/ ReExecute

\* The engine driven through its API.
SpecApi == Init /\ [][NextApi]_vars

\* The engine with the executor also re-invoked on stored instances.
Spec == Init /\ [][Next]_vars

\* The API driven with the further definitions and two of the catalogue deployed.
VariantIdArgs == {d.id : d \in Variants \cup {Sample, Decision2}} \cup {"missing"}

DeployVariant == \E d \in Variants \cup {Sample, Decision2} : DeployProcess(d)

StartVariant == \E id \in VariantIdArgs, v \in StartVariables : StartProcess(id, v)

NextVariants == DeployVariant \/ StartVariant \/ Assign \/ StartWork \/ Complete

SpecVariants == Init /\ [][NextVariants]_vars

\* The API driven with the revisions deployed.
RevisionIdArgs == {d.id : d \in Revisions} \cup {"missing"}

DeployRevision == \E d \in Revisions : DeployProcess(d)

StartRevision == \E id \in RevisionIdArgs, v \in StartVariables : StartProcess(id, v)

NextRevisions == DeployRevision \/ StartRevision \/ Assign \/ StartWork \/ Complete

SpecRevisions == Init /\ [][NextRevisions]_vars

\* Task.fail called on a stored task: nothing in the engine or the task service
\* calls it, a caller holding the task does.
FailTask(task_id) ==
    /\ tasks' = update(tasks, fail(tasks[task_id]))
    /\ UNCHANGED <<definitions, instances, calls>>

\* A caller holding a stored instance sets its status to "terminated", one of the
\* four values the field's comment lists; the engine has no operation for it.
TerminateInstance(i) ==
    /\ instances[i].status # "terminated"
    /\ instances' = update(instances, [instances[i] EXCEPT !.status = "terminated"])
    /\ UNCHANGED <<definitions, tasks, calls>>

Fail == \E t \in DOMAIN tasks : FailTask(t)

Terminate == \E i \in DOMAIN instances : TerminateInstance(i)

NextOps == NextApi \/ Fail \/ Terminate

\* The API together with the callers that fail a task or terminate an instance.
SpecOps == Init /\ [][NextOps]_vars

\* complete_task run by concurrent threads, a thread switch being possible
\* between its statements. First the entry test of engine.py:66-68: a rejected
\* call raises and is over, another one goes on with its task.
BeginComplete(c, task_id, variables) ==
    /\ calls[c].pc = "idle"
    /\ calls' = IF CompleteRejected(tasks, task_id)
                THEN calls
                ELSE [calls EXCEPT ![c] = [pc |-> "checked", task_id |-> task_id,
                                           variables |-> variables]]
    /\ UNCHANGED <<definitions, instances, tasks>>

\* engine.py:70-74: task.complete(), the variables, update_task.
MarkCompleted(c) ==
    /\ calls[c].pc = "checked"
    /\ LET completed == complete(tasks[calls[c].task_id])
           task == IF Truthy(calls[c].variables)
                   THEN [completed EXCEPT
                            !.variables = DictUpdate(completed.variables,
                                                     calls[c].variables.d)]
                   ELSE completed
       IN  tasks' = update(tasks, task)
    /\ calls' = [calls EXCEPT ![c].pc = "completed"]
    /\ UNCHANGED <<definitions, instances>>

\* engine.py:76-78: the executor run on the task's instance; the call is over.
ContinueProcess(c) ==
    /\ calls[c].pc = "completed"
    /\ LET st == execute(definitions, ExecState(instances, tasks),
                         tasks[calls[c].task_id].process_instance_id)
       IN  /\ Len(st.tasks) <= MaxTasks
           /\ instances' = st.instances
           /\ tasks' = st.tasks
    /\ calls' = [calls EXCEPT ![c] = Idle]
    /\ UNCHANGED definitions

Begin == \E c \in Callers, t \in TaskIdArgs, v \in CompleteVariables : BeginComplete(c, t, v)

Mark == \E c \in Callers : MarkCompleted(c)

Continue == \E c \in Callers : ContinueProcess(c)

NextThreads == Deploy \/ Start \/ Assign \/ StartWork \/ Begin \/ Mark \/ Continue

\* The engine with complete_task called from two threads.
SpecThreads == Init /\ [][NextThreads]_vars

\* ------------------------------------------------------- claim vocabulary
\* The spec's error kinds, as the code raises them: one ValueError for both.
NotFoundError(r, ts, task_id) == r.exc = "ValueError" /\ ~Found(ts, task_id)

InvalidStateError(r, ts, task_id) == r.exc = "ValueError" /\ Found(ts, task_id)

\* The definition and the node a stored task was created at.
\* Room for one instance more, and one task more, than the other specifications
\* give: an instance running beside another one.
MaxPairInstances == MaxInstances + 1

MaxPairTasks == MaxTasks + 1

\* Definitions with an automatic task and with a user task after START.
PairCatalogue == {LinService, Decision2}

PairIdArgs == {d.id : d \in PairCatalogue}

\* variables of start_process: absent, or routing a decision to its first edge.
PairVariables == {NoneArg, DictArg(Dict1("approval", StrVal("0")))}

\* WorkflowEngine.start_process while another instance may be stored.
StartBeside(process_definition_id, variables) ==
    /\ Found(definitions, process_definition_id) => Len(instances) < MaxPairInstances
    /\ LET st == start_process(definitions, instances, tasks, process_definition_id,
                               variables)
       IN  /\ Len(st.tasks) <= MaxPairTasks
           /\ instances' = st.instances
           /\ tasks' = st.tasks
    /\ UNCHANGED <<definitions, calls>>

\* WorkflowEngine.complete_task while another instance may be stored.
CompleteBeside(task_id, variables) ==
    LET st == complete_task(definitions, instances, tasks, task_id, variables)
    IN  /\ Len(st.tasks) <= MaxPairTasks
        /\ instances' = st.instances
        /\ tasks' = st.tasks
        /\ UNCHANGED <<definitions, calls>>

DeployPair == \E d \in PairCatalogue : DeployProcess(d)

StartPair == \E id \in PairIdArgs, v \in PairVariables : StartBeside(id, v)

CompletePair == \E t \in TaskIdArgs, v \in CompleteVariables : CompleteBeside(t, v)

NextPair == DeployPair \/ StartPair \/ Assign \/ StartWork \/ CompletePair

\* The engine's API with instances running side by side.
SpecPair == Init /\ [][NextPair]_vars

\* start_process of one of the pair's definitions, or of an id that is not stored.
StartOfPair ==
    \E id \in PairIdArgs \cup {"missing"}, v \in StartVariables : StartProcess(id, v)

NextTasks == DeployPair \/ StartOfPair \/ Assign \/ StartWork \/ Complete \/ Fail

\* The engine's API and a caller of Task.fail, on the tasks of two definitions.
SpecTasks == Init /\ [][NextTasks]_vars

\* _execute_end_node(process_instance) called with the one argument it declares,
\* on a running instance whose token is at an END node.
EndNode(i) ==
    /\ instances[i].status = "running"
    /\ instances[i].current_node_ids # <<>>
    /\ \A k \in DOMAIN instances[i].current_node_ids :
          LET def == definitions[instances[i].process_definition_id]
              node_id == instances[i].current_node_ids[k]
          IN  HasNode(def, node_id) /\ get_node(def, node_id).type = "end"
    /\ instances' = _execute_end_node(ExecState(instances, tasks), i).instances
    /\ UNCHANGED <<definitions, tasks, calls>>

End == \E i \in DOMAIN instances : EndNode(i)

NextEnd == NextApi \/ End

\* The engine's API together with the END node's body run on its own.
SpecEnd == Init /\ [][NextEnd]_vars

DefOf(i) == definitions[instances[i].process_definition_id]

NodeOf(t) == get_node(DefOf(tasks[t].process_instance_id), tasks[t].node_id)

\* The node's single outgoing edge leads to an END node.
LeadsToEnd(def, node) ==
    /\ Len(node.outgoing) = 1
    /\ HasNode(def, node.outgoing[1])
    /\ get_node(def, node.outgoing[1]).type = "end"

\* Every token of instance i is at a USER_TASK node with a task awaiting completion.
Parked(i) ==
    \A k \in DOMAIN instances[i].current_node_ids :
        LET node_id == instances[i].current_node_ids[k]
        IN  /\ HasNode(DefOf(i), node_id)
            /\ get_node(DefOf(i), node_id).type = "task"
            /\ DictGet(get_node(DefOf(i), node_id).properties, "task_type", "user_task")
                   = "user_task"
            /\ \E t \in find_tasks_by_instance_id(tasks, i) :
                   tasks[t].node_id = node_id /\ tasks[t].status # "completed"

\* ------------------------------------------------------------------ claims
\* C1: for the deployed, active linear chain START -> TASK(service_task) -> END,
\* startProcess with no variables returns normally and leaves the new instance
\* COMPLETED with exactly one Task record, which is COMPLETED.
C1_LinearServiceChainCompletes ==
    [][(Found(definitions, "lin_service") /\ StartProcess("lin_service", NoneArg)) =>
        LET r == start_process(definitions, instances, tasks, "lin_service", NoneArg)
            i == Len(instances) + 1
        IN  /\ r.exc = "none"
            /\ instances'[i].status = "completed"
            /\ Cardinality(find_tasks_by_instance_id(tasks', i)) = 1
            /\ \A t \in find_tasks_by_instance_id(tasks', i) :
                   tasks'[t].status = "completed"]_vars

\* C2: a completeTask that returns normally, on a USER_TASK whose node's single
\* outgoing edge leads to an END node, leaves the owning instance COMPLETED with
\* its completion time set.
C2_CompleteBeforeEndCompletesInstance ==
    [][\A t \in DOMAIN tasks, v \in CompleteVariables :
        LET r == complete_task(definitions, instances, tasks, t, v)
            i == tasks[t].process_instance_id
        IN  ( /\ CompleteTask(t, v)
              /\ r.exc = "none"
              /\ tasks[t].task_type = "user_task"
              /\ LeadsToEnd(DefOf(i), NodeOf(t)) )
            => /\ instances'[i].status = "completed"
               /\ instances'[i].completed_at = "set"]_vars

\* C3: after a completeTask(t) that returned normally, a second completeTask(t)
\* fails with InvalidState and leaves every task and every instance as they were.
\* (The step is a completeTask(t, v) step that returned: it left t COMPLETED, which
\* is tested first because it is the cheapest of the three tests.)
C3_SecondCompleteRejected ==
    [][\A t \in DOMAIN tasks, v \in CompleteVariables :
        ( /\ tasks'[t].status = "completed"
          /\ CompleteTask(t, v)
          /\ complete_task(definitions, instances, tasks, t, v).exc = "none" )
        => \A v2 \in CompleteVariables :
              LET r2 == complete_task(definitions', instances', tasks', t, v2)
              IN  /\ InvalidStateError(r2, tasks', t)
                  /\ r2.tasks = tasks'
                  /\ r2.instances = instances']_vars

\* C3 witness: a user task that a completeTask has completed, on which a second
\* completeTask is rejected.
C3_Witness ==
    \E t \in DOMAIN tasks :
        /\ tasks[t].task_type = "user_task"
        /\ tasks[t].status = "completed"
        /\ InvalidStateError(complete_task(definitions, instances, tasks, t, NoneArg),
                             tasks, t)

\* The edge the claim names for outgoing edges `outgoing` and variable v: the
\* smallest non-last index equal, as a string, to the value bound to v; else the last.
C4_Expected(outgoing, variables, v) ==
    LET n == Len(outgoing)
        matching == {i \in 0..(n - 2) :
                        v \in DOMAIN variables /\ str(variables[v]) = strInt(i)}
    IN  IF matching # {}
        THEN outgoing[(CHOOSE i \in matching : \A j \in matching : i <= j) + 1]
        ELSE outgoing[n]

\* The DECISION node that instance i's START node leads to, if it does.
StartsAtDecision(i) ==
    LET first == get_node(DefOf(i), DefOf(i).start_node_id).outgoing[1]
    IN  get_node(DefOf(i), first).type = "decision"

FirstDecision(i) ==
    get_node(DefOf(i), get_node(DefOf(i), DefOf(i).start_node_id).outgoing[1])

\* C4: a DECISION node with condition "{{v}}" sends the token to exactly one
\* outgoing edge: outgoing[i] for the smallest i < n-1 with str(variables[v]) = str(i)
\* when v is bound, else the last edge. Every task of an instance started at a
\* DECISION node is therefore at that edge's node, and a user task there holds the
\* token; with outgoing [task_2, task_3], approval = "0" goes to task_2 and
\* approval absent goes to task_3.
C4_DecisionRouting ==
    \A i \in DOMAIN instances :
        StartsAtDecision(i) =>
            LET d      == FirstDecision(i)
                v      == d.properties["condition"][2]
                target == C4_Expected(d.outgoing, instances[i].variables, v)
                mine   == find_tasks_by_instance_id(tasks, i)
            IN  /\ mine # {}
                /\ \A t \in mine : tasks[t].node_id = target
                /\ get_node(DefOf(i), target).properties["task_type"] = "user_task"
                       => instances[i].current_node_ids = <<target>>
                /\ ( /\ d.outgoing = <<"task_2", "task_3">>
                     /\ instances[i].variables = Dict1("approval", StrVal("0")) )
                       => \A t \in mine : tasks[t].node_id = "task_2"
                /\ ( /\ d.outgoing = <<"task_2", "task_3">>
                     /\ "approval" \notin DOMAIN instances[i].variables )
                       => \A t \in mine : tasks[t].node_id = "task_3"

\* C4 witness: an instance started at a DECISION with three outgoing edges and
\* approval = 1 (an int), whose task was created at the second edge's node.
C4_Witness ==
    \E i \in DOMAIN instances :
        /\ StartsAtDecision(i)
        /\ Len(FirstDecision(i).outgoing) = 3
        /\ instances[i].variables = Dict1("approval", IntVal("1"))
        /\ \E t \in find_tasks_by_instance_id(tasks, i) : tasks[t].node_id = "b"

\* C5: re-invoking the Flow Executor on an instance whose tokens are all parked at
\* USER_TASK nodes, or whose status is COMPLETED, changes neither the number of
\* tasks, nor any task's status, nor the instance's status and current_node_ids.
C5_ReExecuteIsNoOp ==
    [][\A i \in DOMAIN instances :
        (Execute(i) /\ (Parked(i) \/ instances[i].status = "completed"))
        => /\ Len(tasks') = Len(tasks)
           /\ \A t \in DOMAIN tasks : tasks'[t].status = tasks[t].status
           /\ instances'[i].status = instances[i].status
           /\ instances'[i].current_node_ids = instances[i].current_node_ids]_vars

\* C6: after any sequence of startProcess, assignTask, startTask and completeTask
\* there is at most one Task record per instance and TASK node.
C6_OneTaskPerNode ==
    \A t1, t2 \in DOMAIN tasks :
        ( /\ tasks[t1].process_instance_id = tasks[t2].process_instance_id
          /\ tasks[t1].node_id = tasks[t2].node_id )
        => t1 = t2

\* C7: after a completeTask that returned normally on a task created at node N,
\* the owning instance's current_node_ids no longer contains N.
C7_CompleteMovesToken ==
    [][\A t \in DOMAIN tasks, v \in CompleteVariables :
        ( /\ CompleteTask(t, v)
          /\ complete_task(definitions, instances, tasks, t, v).exc = "none" )
        => LET ids == instances'[tasks[t].process_instance_id].current_node_ids
           IN  \A k \in DOMAIN ids : ids[k] # tasks[t].node_id]_vars

\* C8: in every reachable state, an instance whose status is neither COMPLETED nor
\* SUSPENDED has a non-empty current_node_ids.
C8_ActiveInstanceHasToken ==
    \A i \in DOMAIN instances :
        instances[i].status \notin {"completed", "suspended"}
            => instances[i].current_node_ids # <<>>

\* C8 witness: a running instance the executor has advanced to a task node, where
\* it created a task and left the token.
C8_Witness ==
    \E i \in DOMAIN instances :
        /\ instances[i].status = "running"
        /\ find_tasks_by_instance_id(tasks, i) # {}
        /\ instances[i].current_node_ids # <<DefOf(i).start_node_id>>
        /\ instances[i].current_node_ids # <<>>

\* C9: after a completeTask(t, vars) that returned normally, every key of vars is
\* bound to its given value in the task's variables and in the owning instance's
\* variables.
C9_CompleteMergesVariables ==
    [][\A t \in DOMAIN tasks, v \in CompleteVariables :
        ( /\ CompleteTask(t, v)
          /\ complete_task(definitions, instances, tasks, t, v).exc = "none"
          /\ ~v.isNone )
        => \A k \in DOMAIN v.d :
              LET inst == instances'[tasks[t].process_instance_id]
              IN  /\ k \in DOMAIN tasks'[t].variables
                  /\ tasks'[t].variables[k] = v.d[k]
                  /\ k \in DOMAIN inst.variables
                  /\ inst.variables[k] = v.d[k]]_vars

\* The statuses of TaskStatus.
TaskStatuses == {"created", "assigned", "in_progress", "completed", "failed"}

\* The task repository with task t in status s.
WithStatus(ts, t, s) == IF Found(ts, t) THEN [ts EXCEPT ![t].status = s] ELSE ts

C11_StartProcessNeedsActiveDefinition ==
    \A id \in VariantIdArgs, v \in StartVariables :
        LET r == start_process(definitions, instances, tasks, id, v)
            i == Len(instances) + 1
        IN  IF ~Found(definitions, id) \/ ~definitions[id].is_active
            THEN /\ r.exc = "ValueError"
                 /\ r.instances = instances
                 /\ r.tasks = tasks
            ELSE LET created ==
                         [id |-> i, process_definition_id |-> id, status |-> "running",
                          variables |-> OrEmpty(v),
                          current_node_ids |-> <<definitions[id].start_node_id>>,
                          completed_at |-> None]
                 IN  /\ r = execute(definitions,
                                    ExecState(Append(instances, created), tasks), i)
                     /\ Len(r.instances) = Len(instances) + 1
                     /\ r.instances[i].process_definition_id = id

\* C11 witness: an inactive definition is stored, and startProcess with its id is
\* rejected and has created neither an instance nor a task.
C11_Witness ==
    /\ Found(definitions, "inactive")
    /\ ~definitions["inactive"].is_active
    /\ start_process(definitions, instances, tasks, "inactive", NoneArg).exc = "ValueError"
    /\ instances = <<>>
    /\ tasks = <<>>

\* The steps of the task lifecycle CREATED -> (ASSIGNED ->) IN_PROGRESS ->
\* COMPLETED | FAILED.
LifecycleStep(from, to) ==
    \/ from = "created" /\ to \in {"assigned", "in_progress"}
    \/ from = "assigned" /\ to = "in_progress"
    \/ from = "in_progress" /\ to \in {"completed", "failed"}

\* C12: under any sequence of assignTask, startTask and completeTask a task's
\* status changes only by a step of the lifecycle, and a task that is COMPLETED or
\* FAILED never becomes CREATED, ASSIGNED or IN_PROGRESS again.
C12_TaskLifecycle ==
    [][\A t \in DOMAIN tasks :
        /\ tasks'[t].status # tasks[t].status
              => LifecycleStep(tasks[t].status, tasks'[t].status)
        /\ tasks[t].status \in {"completed", "failed"}
              => tasks'[t].status \notin {"created", "assigned", "in_progress"}]_vars

\* C13: every Task the executor creates at a TASK node whose task_type is
\* service_task or script_task is COMPLETED when the call that ran the executor
\* returns, with no assignTask, startTask or completeTask on it, and the owning
\* instance's token has left the task's node along its outgoing edge.
C13_AutomaticTasksComplete ==
    [][\A t \in (DOMAIN tasks') \ (DOMAIN tasks) :
        tasks'[t].task_type \in {"service_task", "script_task"}
        => LET ids == instances'[tasks'[t].process_instance_id].current_node_ids
           IN  /\ tasks'[t].status = "completed"
               /\ \A k \in DOMAIN ids : ids[k] # tasks'[t].node_id]_vars

\* C14: a Task the executor creates at a TASK node whose task_type is user_task is
\* not COMPLETED when the call returns; it is the only task created at that node
\* and the last one created, its node's id is the instance's current_node_ids and
\* the instance is RUNNING: no successor node was executed. While completeTask is
\* not called, assignTask and startTask change no instance, create no task and
\* complete none.
C14_UserTaskParksToken ==
    [][/\ \A t \in (DOMAIN tasks') \ (DOMAIN tasks) :
            tasks'[t].task_type = "user_task"
            => LET i == tasks'[t].process_instance_id
               IN  /\ tasks'[t].status # "completed"
                   /\ t = Len(tasks')
                   /\ \A u \in (DOMAIN tasks') \ (DOMAIN tasks) :
                          tasks'[u].node_id = tasks'[t].node_id => u = t
                   /\ instances'[i].current_node_ids = <<tasks'[t].node_id>>
                   /\ instances'[i].status = "running"
       /\ (Assign \/ StartWork)
            => /\ instances' = instances
               /\ Len(tasks') = Len(tasks)
               /\ \A t \in DOMAIN tasks :
                      tasks'[t].status = "completed" => tasks[t].status = "completed"]_vars

\* C14 witness: a user task that was assigned and started but not completed; it
\* is its instance's only task, and the RUNNING instance's token is at its node.
C14_Witness ==
    \E t \in DOMAIN tasks :
        LET i == tasks[t].process_instance_id
        IN  /\ tasks[t].task_type = "user_task"
            /\ tasks[t].status = "in_progress"
            /\ find_tasks_by_instance_id(tasks, i) = {t}
            /\ instances[i].current_node_ids = <<tasks[t].node_id>>
            /\ instances[i].status = "running"

\* The tasks of instance i created at node n, and whether one of them is COMPLETED
\* or still awaits completion.
TasksAt(i, n) == {t \in find_tasks_by_instance_id(tasks, i) : tasks[t].node_id = n}

BranchDone(i, n) == \E t \in TasksAt(i, n) : tasks[t].status = "completed"

BranchPending(i, n) == \E t \in TasksAt(i, n) : tasks[t].status # "completed"

CompleteBoth(t1, v1, t2, v2) ==
    LET first == complete_task(definitions, instances, tasks, t1, v1)
    IN  complete_task(definitions, first.instances, first.tasks, t2, v2)

C17_FailedTaskSuspendsInstance ==
    [][\A t \in DOMAIN tasks :
        ( /\ tasks[t].status = "in_progress"
          /\ tasks[t].completed_at = None
          /\ tasks'[t].status = "failed" )
        => LET i == tasks[t].process_instance_id
           IN  /\ instances'[i].current_node_ids = instances[i].current_node_ids
               /\ instances'[i].status = "suspended"]_vars

\* C18: when a step leaves an instance's token at a node id that is not in its
\* definition's node map, the instance's status is SUSPENDED (the token is not
\* dropped with the instance left RUNNING), and a startProcess that met the missing
\* node fails with NodeNotFound.
C18_MissingNodeSuspends ==
    [][\A i \in DOMAIN instances' :
        LET def == definitions'[instances'[i].process_definition_id]
            ids == instances'[i].current_node_ids
        IN  (\E k \in DOMAIN ids : ~HasNode(def, ids[k]))
            => /\ instances'[i].status = "suspended"
               /\ \A id \in VariantIdArgs, v \in StartVariables :
                      (StartProcess(id, v) /\ i \notin DOMAIN instances)
                      => start_process(definitions, instances, tasks, id, v).exc
                             = "NodeNotFound"]_vars

\* C19: once an instance's status is TERMINATED, no step changes its
\* current_node_ids or its status or creates a Task record for it.
C19_TerminatedInstanceIsFrozen ==
    [][\A i \in DOMAIN instances :
        instances[i].status = "terminated"
        => /\ instances'[i].current_node_ids = instances[i].current_node_ids
           /\ instances'[i].status = "terminated"
           /\ find_tasks_by_instance_id(tasks', i)
                  = find_tasks_by_instance_id(tasks, i)]_vars

\* C20: concurrent completeTask calls are serialized. Two calls on the same task
\* id have, in any sequential order, one success and one InvalidState failure (the
\* second call finds the task COMPLETED), so of two calls on one task id that are
\* under way at the same time at most one has passed the entry test.
C20_ConcurrentCompletesSerialized ==
    \A c1, c2 \in Callers :
        (c1 # c2 /\ calls[c1].pc # "idle" /\ calls[c2].pc # "idle")
            => calls[c1].task_id # calls[c2].task_id

\* C21: a startProcess or completeTask call that fails (raises) leaves the stored
\* instances and tasks identical to the state before the call: no instance is
\* persisted by a failed startProcess, no task left COMPLETED by a failed
\* completeTask.
C21_FailedCallWritesNothing ==
    [][/\ \A id \in DefIdArgs, v \in StartVariables :
            ( /\ StartProcess(id, v)
              /\ start_process(definitions, instances, tasks, id, v).exc # "none" )
            => (instances' = instances /\ tasks' = tasks)
       /\ \A t \in TaskIdArgs, v \in CompleteVariables :
            ( /\ CompleteTask(t, v)
              /\ complete_task(definitions, instances, tasks, t, v).exc # "none" )
            => (instances' = instances /\ tasks' = tasks)]_vars

\* The exceptions the code raises for the spec's typed errors: ValueError stands
\* for NotFound and InvalidState; the others have no exception in the code.
TypedErrors == {"ValueError"}

\* C22: every startProcess and completeTask call, the executor's steps included,
\* either returns or fails with one of the typed errors; no call on a deployed
\* definition ends in another failure, the token reaching an END node included.
C22_OnlyTypedErrors ==
    [][/\ \A id \in DefIdArgs, v \in StartVariables :
            StartProcess(id, v)
            => start_process(definitions, instances, tasks, id, v).exc
                   \in TypedErrors \cup {"none"}
       /\ \A t \in TaskIdArgs, v \in CompleteVariables :
            CompleteTask(t, v)
            => complete_task(definitions, instances, tasks, t, v).exc
                   \in TypedErrors \cup {"none"}]_vars

\* C23: saving a definition whose id is already stored leaves the definition
\* stored under that id as it was (the save fails with DuplicateDefinition), so
\* instances started before and after it resolve the same node graph.
C23_RedeployKeepsStoredDefinition ==
    [][\A d \in Revisions :
        (DeployProcess(d) /\ Found(definitions, d.id))
        => definitions'[d.id] = definitions[d.id]]_vars

\* What the spec requires of a deployed definition: the start node id and every
\* outgoing edge's target are in the node map, and every JOIN node expects at
\* least one incoming branch.
WellFormed(def) ==
    /\ HasNode(def, def.start_node_id)
    /\ \A n \in DOMAIN def.nodes :
          /\ \A k \in DOMAIN def.nodes[n].outgoing :
                 HasNode(def, def.nodes[n].outgoing[k])
          /\ def.nodes[n].type = "join"
                 => DictGet(def.nodes[n].properties, "expects", <<>>) # <<>>

\* C24: no stored definition has a dangling edge: deployProcess stores nothing
\* (it fails with InvalidDefinition) unless the start node id and every outgoing
\* edge's target are in the node map and every JOIN node expects at least one
\* incoming branch.
C24_StoredDefinitionsAreValid ==
    \A id \in DOMAIN definitions : WellFormed(definitions[id])

\* The node a definition's START node leads to.
FirstNodeAfterStart(def) == get_node(def, get_node(def, def.start_node_id).outgoing[1])

\* C27: when a startProcess brings the executor to a PARALLEL node with N outgoing
\* edges, the new instance's current_node_ids afterwards has N entries, one per
\* outgoing target, and does not contain the PARALLEL node.
C27_ParallelFansOut ==
    [][\A id \in VariantIdArgs, v \in StartVariables :
        ( /\ StartProcess(id, v)
          /\ Len(instances') = Len(instances) + 1
          /\ HasNode(definitions[id], get_node(definitions[id],
                                               definitions[id].start_node_id).outgoing[1])
          /\ FirstNodeAfterStart(definitions[id]).type = "parallel" )
        => LET node == FirstNodeAfterStart(definitions[id])
               ids  == instances'[Len(instances')].current_node_ids
           IN  /\ Len(ids) = Len(node.outgoing)
               /\ \A k \in DOMAIN node.outgoing :
                      \E j \in DOMAIN ids : ids[j] = node.outgoing[k]
               /\ \A j \in DOMAIN ids : ids[j] # node.id]_vars

\* Instance i, as stored in insts with the tasks ts, is at a fixed point: it is
\* COMPLETED or SUSPENDED, or every id in current_node_ids is a TASK node of its
\* definition with a task of the instance that is not COMPLETED.
FixedPoint(defs, insts, ts, i) ==
    \/ insts[i].status \in {"completed", "suspended"}
    \/ \A k \in DOMAIN insts[i].current_node_ids :
          LET def == defs[insts[i].process_definition_id]
              node_id == insts[i].current_node_ids[k]
          IN  /\ HasNode(def, node_id)
              /\ get_node(def, node_id).type = "task"
              /\ \E t \in find_tasks_by_instance_id(ts, i) :
                     ts[t].node_id = node_id /\ ts[t].status # "completed"

\* C28: when startProcess or completeTask returns normally, the instance it ran
\* the executor on is at a fixed point (for a definition without dangling edges,
\* which is what the spec lets be deployed).
C28_ReturnsAtFixedPoint ==
    [][/\ \A id \in VariantIdArgs, v \in StartVariables :
            ( /\ StartProcess(id, v)
              /\ Len(instances') = Len(instances) + 1
              /\ WellFormed(definitions[id])
              /\ start_process(definitions, instances, tasks, id, v).exc = "none" )
            => FixedPoint(definitions', instances', tasks', Len(instances'))
       /\ \A t \in DOMAIN tasks, v \in CompleteVariables :
            ( /\ CompleteTask(t, v)
              /\ WellFormed(DefOf(tasks[t].process_instance_id))
              /\ complete_task(definitions, instances, tasks, t, v).exc = "none" )
            => FixedPoint(definitions', instances', tasks',
                          tasks[t].process_instance_id)]_vars

\* C25: in every reachable state an instance whose status is "completed" has an
\* empty current_node_ids: the END node removes the token.
C25_CompletedHasNoToken ==
    \A i \in DOMAIN instances :
        instances[i].status = "completed" => instances[i].current_node_ids = <<>>

\* The condition of a DECISION node is a literal: a non-empty string without {{...}}.
LiteralCondition(node) ==
    /\ node.type = "decision"
    /\ "condition" \in DOMAIN node.properties
    /\ Len(node.properties["condition"]) = 1
    /\ ~IsVarRef(node.properties["condition"])

\* C26 as stated: an instance started at a DECISION node whose literal condition
\* equals the index i of a non-last outgoing edge has its tasks at outgoing[i].
C26_LiteralRoutedByIndex ==
    \A i \in DOMAIN instances :
        (StartsAtDecision(i) /\ LiteralCondition(FirstDecision(i))) =>
            LET d == FirstDecision(i)
            IN  \A k \in 0..(Len(d.outgoing) - 2) :
                    d.properties["condition"][1] = strInt(k) =>
                        \A t \in find_tasks_by_instance_id(tasks, i) :
                            tasks[t].node_id = d.outgoing[k + 1]

\* C26, amended: a DECISION node whose condition is a literal sends the token to
\* its last (default) outgoing edge, whatever the literal and the variables are:
\* every stored definition's DECISION node does so when given a literal, and the
\* tasks of an instance started at such a node are all at the last edge's node.
C26_LiteralRoutedToDefault ==
    /\ \A id \in DOMAIN definitions : \A n \in DOMAIN definitions[id].nodes :
          LET node == definitions[id].nodes[n]
          IN  (node.type = "decision" /\ node.outgoing # <<>>) =>
                  \A lit \in {"0", "1", "x"}, v \in StartVariables :
                      DecisionTarget([node EXCEPT !.properties = Dict1("condition", <<lit>>)],
                                     OrEmpty(v))
                          = node.outgoing[Len(node.outgoing)]
    /\ \A i \in DOMAIN instances :
          (StartsAtDecision(i) /\ LiteralCondition(FirstDecision(i))) =>
              LET d == FirstDecision(i)
                  mine == find_tasks_by_instance_id(tasks, i)
              IN  /\ mine # {}
                  /\ \A t \in mine : tasks[t].node_id = d.outgoing[Len(d.outgoing)]

\* An instance started at a DECISION node whose literal condition "0" is the index
\* of its first outgoing edge has its task at the last edge's node.
C26_Witness ==
    \E i \in DOMAIN instances :
        /\ StartsAtDecision(i)
        /\ LiteralCondition(FirstDecision(i))
        /\ FirstDecision(i).properties["condition"] = <<"0">>
        /\ Len(FirstDecision(i).outgoing) = 2
        /\ \E t \in find_tasks_by_instance_id(tasks, i) :
               tasks[t].node_id = FirstDecision(i).outgoing[2]

\* C29: a startProcess whose token reaches a DECISION node with no outgoing edge
\* fails with InvalidNode and leaves the instance "suspended".
C29_EmptyDecisionSuspends ==
    [][\A id \in RevisionIdArgs, v \in StartVariables :
            ( /\ StartProcess(id, v)
              /\ Len(instances') = Len(instances) + 1
              /\ HasNode(definitions[id],
                         get_node(definitions[id], definitions[id].start_node_id).outgoing[1])
              /\ FirstNodeAfterStart(definitions[id]).type = "decision"
              /\ FirstNodeAfterStart(definitions[id]).outgoing = <<>> )
            => /\ start_process(definitions, instances, tasks, id, v).exc = "InvalidNode"
               /\ instances'[Len(instances')].status = "suspended"]_vars

\* The node ids that node n's outgoing edges lead to in def's node map.
Successors(def, n) ==
    {def.nodes[n].outgoing[k] : k \in DOMAIN def.nodes[n].outgoing} \cap DOMAIN def.nodes

\* The nodes reached from the set S in at most k further steps.
RECURSIVE ReachableFrom(_, _, _)
ReachableFrom(def, S, k) ==
    IF k = 0 THEN S
    ELSE ReachableFrom(def, S \cup UNION {Successors(def, n) : n \in S}, k - 1)

Acyclic(def) ==
    \A n \in DOMAIN def.nodes :
        n \notin ReachableFrom(def, Successors(def, n), Cardinality(DOMAIN def.nodes))

\* Instance i of insts is COMPLETED or SUSPENDED, or all its tokens are at
\* USER_TASK nodes.
AtRest(defs, insts, i) ==
    \/ insts[i].status \in {"completed", "suspended"}
    \/ \A k \in DOMAIN insts[i].current_node_ids :
          LET def == defs[insts[i].process_definition_id]
              node_id == insts[i].current_node_ids[k]
          IN  /\ HasNode(def, node_id)
              /\ get_node(def, node_id).type = "task"
              /\ DictGet(get_node(def, node_id).properties, "task_type", "user_task")
                     = "user_task"

\* C30: on an acyclic definition, every run of the Flow Executor, from
\* startProcess or from completeTask and whatever its outcome, ends with the
\* instance's tokens at USER_TASK nodes or the instance COMPLETED or SUSPENDED.
C30_ExecutorEndsAtRest ==
    [][ /\ \A id \in DefIdArgs, v \in StartVariables :
            ( /\ StartProcess(id, v)
              /\ Len(instances') = Len(instances) + 1
              /\ Acyclic(definitions[id]) )
            => AtRest(definitions', instances', Len(instances'))
        /\ \A t \in TaskIdArgs, v \in CompleteVariables :
            ( /\ CompleteTask(t, v)
              /\ ~CompleteRejected(tasks, t)
              /\ Acyclic(DefOf(tasks[t].process_instance_id)) )
            => AtRest(definitions', instances', tasks[t].process_instance_id)]_vars

\* C31: no startProcess, assignTask, startTask, completeTask or executor step
\* changes a stored definition: the definition repository, with every
\* definition's node map, start node id and active flag, is the same after the
\* step as before; a step that changes any of them is none of these operations.
C31_OperationsKeepDefinitions ==
    [][( \/ DOMAIN definitions' # DOMAIN definitions
         \/ \E id \in DOMAIN definitions :
               \/ definitions'[id].nodes # definitions[id].nodes
               \/ definitions'[id].start_node_id # definitions[id].start_node_id
               \/ definitions'[id].is_active # definitions[id].is_active )
          => ~(Start \/ Assign \/ StartWork \/ Complete \/ ReExecute)]_vars

\* An instance of a stored, unchanged definition has been started and a task of
\* it assigned, started and completed, the executor having run again.
C31_Witness ==
    \E i \in DOMAIN instances :
        /\ DefOf(i) \in Catalogue
        /\ \E t, u \in find_tasks_by_instance_id(tasks, i) :
               /\ t # u
               /\ tasks[t].task_type = "user_task"
               /\ tasks[t].status = "completed"
               /\ tasks[u].status = "created"

Untouched(b) ==
    /\ instances'[b].status = instances[b].status
    /\ instances'[b].current_node_ids = instances[b].current_node_ids
    /\ instances'[b].variables = instances[b].variables
    /\ find_tasks_by_instance_id(tasks', b) = find_tasks_by_instance_id(tasks, b)
    /\ \A u \in find_tasks_by_instance_id(tasks, b) : tasks'[u] = tasks[u]

\* C33: startProcess for a new instance, and assignTask, startTask and
\* completeTask on a task of instance A, change neither the status,
\* current_node_ids or variables of another instance B nor any Task record of B,
\* and give B no new Task record.
C33_OperationsFramedToInstance ==
    [][ /\ (instances' # instances \/ tasks' # tasks) =>
              \A id \in PairIdArgs, v \in PairVariables :
                  StartBeside(id, v) => \A b \in DOMAIN instances : Untouched(b)
        /\ (instances' # instances \/ tasks' # tasks) =>
              \A t \in DOMAIN tasks :
                  ( \/ \E a \in Assignees : AssignTask(t, a)
                    \/ StartTask(t)
                    \/ \E v \in CompleteVariables : CompleteBeside(t, v) )
                  => \A b \in DOMAIN instances \ {tasks[t].process_instance_id} :
                         Untouched(b)]_vars

\* Two instances with different variables are stored, each with a task; a user
\* task of the first has been assigned, started and completed, the executor
\* giving the first a further task.
C33_Witness ==
    /\ Len(instances) = 2
    /\ \E t, u \in find_tasks_by_instance_id(tasks, 1) :
           /\ tasks[t].status = "completed"
           /\ tasks[t].task_type = "user_task"
           /\ tasks[u].status = "created"
    /\ find_tasks_by_instance_id(tasks, 2) # {}
    /\ instances[2].variables # instances[1].variables

\* C34: startTask changes a task only when its status is "assigned", moving it
\* to "in_progress" and changing nothing else; on a task in any other status and
\* on an unknown task id it leaves every task unchanged. assignTask on an unknown
\* task id leaves every task unchanged. Neither operation changes an instance.
C34_StartTaskNeedsAssigned ==
    [][ /\ \A t \in TaskIdArgs :
              StartTask(t) =>
                  /\ instances' = instances
                  /\ IF t \in DOMAIN tasks /\ tasks[t].status = "assigned"
                     THEN tasks' = [tasks EXCEPT ![t].status = "in_progress"]
                     ELSE tasks' = tasks
        /\ \A t \in TaskIdArgs, a \in Assignees :
              AssignTask(t, a) =>
                  /\ instances' = instances
                  /\ t \notin DOMAIN tasks => tasks' = tasks ]_vars

\* startTask has moved an ASSIGNED task to IN_PROGRESS while another task of
\* the instance is FAILED, a status startTask leaves alone.
C34_Witness ==
    \E t, u \in DOMAIN tasks :
        /\ tasks[t].status = "in_progress"
        /\ tasks[u].status = "failed"
        /\ instances[tasks[t].process_instance_id].status = "running"

\* C35: in every reachable state the current_node_ids of every stored instance
\* holds exactly one node id.
C35_ExactlyOneCurrentNode ==
    \A i \in DOMAIN instances : Len(instances[i].current_node_ids) = 1

\* The executor has moved an instance's token off the START node and, after a
\* completeTask, has run again: the instance has a COMPLETED user task and a
\* further task.
C35_Witness ==
    \E i \in DOMAIN instances :
        /\ instances[i].current_node_ids # <<DefOf(i).start_node_id>>
        /\ \E t, u \in find_tasks_by_instance_id(tasks, i) :
               /\ tasks[t].task_type = "user_task"
               /\ tasks[t].status = "completed"
               /\ u > t

====
